---- MODULE Spec2Model ----
(***************************************************************************)
(* The weather panel of WeatherBuildingViewer (src/src/App.jsx): the fetch *)
(* adapter fetchWeather, the WMO condition table and the component's state *)
(* (modalOpen, loading, error, weather, clickedCoords) under its handlers: *)
(* the mount pre-fetch, onBuildingClick, the three ways to close the       *)
(* panel and the continuations that run when a fetch settles.              *)
(***************************************************************************)
EXTENDS Integers, Sequences, FiniteSets, TLC

VARIABLES
    mounted,        \* the mount effects have run
    modalOpen,      \* useState(false)
    loading,        \* useState(false)
    error,          \* useState("")
    weather,        \* useState(null): Null or a weather record
    clickedCoords,  \* useState(coords)
    requests,       \* every fetchWeather call issued so far, in order
    now,            \* the wall clock read by new Date()
    weatherFrom,    \* history: index in requests of the call that stored weather
    lastClick,      \* history: the last run of onBuildingClick and the request it issued
    lastEvent,      \* history: the handler that ran last
    probe,          \* a single fetchWeather call observed on its own
    view,           \* the condition line of the panel for one weather code
    render          \* the coords prop: how it is passed, the object of the latest
                    \* render, the object the effect last ran with, a pending re-render

vars == <<mounted, modalOpen, loading, error, weather, clickedCoords,
          requests, now, weatherFrom, lastClick, lastEvent, probe, view, render>>

panelVars == <<mounted, modalOpen, loading, error, weather, clickedCoords,
               requests, weatherFrom, lastClick, lastEvent, render>>

-----------------------------------------------------------------------------
(* Bounds of the model. *)

\* fetchWeather calls issued in one run (the mount pre-fetch included)
MaxFetches == 3
\* ticks of the wall clock in one run
MaxNow == 1
\* the largest weather code rendered (the WMO table ends at 95)
MaxCode == 99

-----------------------------------------------------------------------------
(* JavaScript values: undefined, null, numbers and strings. *)

Undefined == [tag |-> "undefined", n |-> 0, s |-> ""]
Null == [tag |-> "null", n |-> 0, s |-> ""]
Num(k) == [tag |-> "number", n |-> k, s |-> ""]
Str(t) == [tag |-> "string", n |-> 0, s |-> t]

Nullish(v) == v.tag \in {"undefined", "null"}

\* a ?? d, which replaces undefined and null only
Coalesce_Undefined(v, d) == IF v.tag = "undefined" THEN d ELSE v
Coalesce(v, d) == IF Nullish(v) THEN d ELSE v

\* ToBoolean on these values
Truthy(v) ==
    /\ ~Nullish(v)
    /\ ~(v.tag = "number" /\ v.n = 0)
    /\ ~(v.tag = "string" /\ v.s = "")

\* a || d
OrElse(v, d) == IF Truthy(v) THEN v ELSE d

\* new Date(t).toISOString(): the instant t as a non-empty string
toISOString(t) == Str("T" \o ToString(t))

-----------------------------------------------------------------------------
(* Coordinates, in units of 1e-4 degree. *)

\* App's coords prop, { lat: 12.972, lng: 77.593 }
coords == [lat |-> 129720, lng |-> 775930]
\* the coordinate Scene passes to onBuildingClick, { lat: 12.8385, lng: 80.1697 }
sceneCoord == [lat |-> 128385, lng |-> 801697]
\* the default value of the coords parameter, { lat: 12.8385, lng: 80.1697 }
defaultCoords == [lat |-> 128385, lng |-> 801697]
\* a coordinate that shares its latitude with sceneCoord
otherCoord == [lat |-> 128385, lng |-> 775930]

Coordinates == {coords, sceneCoord, otherCoord}

-----------------------------------------------------------------------------
(* What the external call can do: fetch() rejects, answers with a          *)
(* non-success status, answers with a body res.json() cannot parse, or     *)
(* answers with JSON whose current_weather is absent, null or an object    *)
(* whose five fields are each absent, null or set.                         *)

Fields == {"temperature", "windspeed", "winddirection", "weathercode", "time"}

\* the values Open-Meteo sends when a field is set
ServiceValue(f) ==
    CASE f = "temperature"   -> Num(0)
      [] f = "windspeed"     -> Num(12)
      [] f = "winddirection" -> Num(90)
      [] f = "weathercode"   -> Num(61)
      [] f = "time"          -> Str("2025-01-01T00:00")

NoFields == [f \in Fields |-> Undefined]
AllFields == [f \in Fields |-> ServiceValue(f)]

CurrentWeathers ==
    {[f \in Fields |-> IF p[f] = "set" THEN ServiceValue(f)
                       ELSE IF p[f] = "null" THEN Null ELSE Undefined] :
        p \in [Fields -> {"absent", "null", "set"}]}

Outcome(net, ok, body, cwKind, cw) ==
    [net |-> net, ok |-> ok, body |-> body, cwKind |-> cwKind, cw |-> cw]

TransportError == Outcome("error", FALSE, "none", "undefined", NoFields)
BadStatus == Outcome("response", FALSE, "none", "undefined", NoFields)
Unparsable == Outcome("response", TRUE, "unparsable", "undefined", NoFields)
NullBody == Outcome("response", TRUE, "null", "undefined", NoFields)
NoCurrentWeather == Outcome("response", TRUE, "object", "undefined", NoFields)
NullCurrentWeather == Outcome("response", TRUE, "object", "null", NoFields)
Success(cw) == Outcome("response", TRUE, "object", "object", cw)

FailureOutcomes ==
    {TransportError, BadStatus, Unparsable, NullBody, NoCurrentWeather,
     NullCurrentWeather}

Outcomes == FailureOutcomes \cup {Success(cw) : cw \in CurrentWeathers}

\* the outcomes the panel is driven with
PanelOutcomes ==
    {TransportError, BadStatus, NoCurrentWeather, Success(AllFields)}

-----------------------------------------------------------------------------
(* fetchWeather *)

Threw(message) == [threw |-> TRUE, message |-> message, value |-> Null]
Returned(value) == [threw |-> FALSE, message |-> "", value |-> value]

Fulfilled(value) == [state |-> "fulfilled", value |-> value, message |-> ""]
Rejected(message) == [state |-> "rejected", value |-> Null, message |-> message]

units == [temperature |-> "°C", windspeed |-> "km/h"]

\* the record of the catch block, built at instant t
fallbackRecord_SentinelCode(t) ==
    [temperature |-> Str("--"), windspeed |-> Str("--"),
     winddirection |-> Str("--"), weathercode |-> Str("--"),
     time |-> toISOString(t), units |-> units]

fallbackRecord(t) ==
    [temperature |-> Str("--"), windspeed |-> Str("--"),
     winddirection |-> Str("--"), weathercode |-> Num(0),
     time |-> toISOString(t), units |-> units]

\* the record of the try block from current_weather cw, built at instant t
weatherRecord(cw, t) ==
    [temperature |-> Coalesce(cw["temperature"], Str("--")),
     windspeed |-> Coalesce(cw["windspeed"], Str("--")),
     winddirection |-> Coalesce(cw["winddirection"], Str("--")),
     weathercode |-> Coalesce(cw["weathercode"], Num(0)),
     time |-> Coalesce(cw["time"], toISOString(t)),
     units |-> units]

\* the try block: what it returns or throws when the call's outcome o is in
fetchWeatherTry(o, t) ==
    IF o.net = "error" THEN Threw("Failed to fetch")
    ELSE IF ~o.ok THEN Threw("Weather fetch failed")
    ELSE IF o.body = "unparsable" THEN Threw("Unexpected token")
    ELSE IF o.body = "null" THEN Threw("Cannot read properties of null")
    ELSE IF o.cwKind # "object" THEN Threw("No current weather data available")
    ELSE Returned(weatherRecord(o.cw, t))

\* the promise fetchWeather(coord) settles to when the outcome o arrives at t
fetchWeather_NoCatch(coord, o, t) ==
    LET r == fetchWeatherTry(o, t)
    IN  IF r.threw THEN Rejected(r.message) ELSE Fulfilled(r.value)

fetchWeather(coord, o, t) ==
    LET r == fetchWeatherTry(o, t)
    IN  IF r.threw THEN Fulfilled(fallbackRecord(t)) ELSE Fulfilled(r.value)

-----------------------------------------------------------------------------
(* The WMO table and the condition line of the panel. *)

WMO ==
    (0 :> "Clear sky") @@ (1 :> "Mainly clear") @@ (2 :> "Partly cloudy") @@
    (3 :> "Overcast") @@ (45 :> "Fog") @@ (48 :> "Depositing rime fog") @@
    (51 :> "Light drizzle") @@ (53 :> "Moderate drizzle") @@
    (55 :> "Dense drizzle") @@ (61 :> "Slight rain") @@
    (63 :> "Moderate rain") @@ (65 :> "Heavy rain") @@ (71 :> "Slight snow") @@
    (73 :> "Moderate snow") @@ (75 :> "Heavy snow") @@ (95 :> "Thunderstorm")

\* WMO[code]: the property, or undefined
wmoLookup(code) == IF code \in DOMAIN WMO THEN Str(WMO[code]) ELSE Undefined

\* WMO[weather.weathercode] || `Code ${weather.weathercode}`
labelFor_NoDefault(code) == wmoLookup(code).s
labelFor(code) == OrElse(wmoLookup(code), Str("Code " \o ToString(code))).s

-----------------------------------------------------------------------------
(* The component: state after the first render, before its effects run. *)

NoEvent ==
    [kind |-> "none", coord |-> coords, id |-> 0, hit |-> FALSE,
     wasOpen |-> FALSE, prev |-> "none"]

CloseKinds == {"escape", "backdrop", "closeBtn"}

\* the handler that is running, for lastEvent: a close remembers whether the
\* panel was open, a click remembers the handler that ran before it
Event(kind, coord, id, hit) ==
    [kind |-> kind, coord |-> coord, id |-> id, hit |-> hit,
     wasOpen |-> (kind \in CloseKinds /\ modalOpen),
     prev |-> IF kind = "click" THEN lastEvent.kind ELSE "none"]

IdleProbe ==
    [phase |-> "idle", coord |-> coords, outcome |-> TransportError,
     calledAt |-> 0, settledAt |-> 0, result |-> Rejected("")]

Codes == (-3)..MaxCode

\* the coords of a render: the prop when the parent passes it, else the default
coordsFor(mode) == IF mode = "default" THEN defaultCoords ELSE coords

\* the first render: coords is object 1, and the effect has not run yet
FirstRender(mode) == [mode |-> mode, coordsId |-> 1, depsId |-> 0, dirty |-> FALSE]

Init ==
    /\ mounted = FALSE
    /\ modalOpen = FALSE
    /\ loading = FALSE
    /\ error = ""
    /\ weather = Null
    /\ clickedCoords = coords
    /\ render = FirstRender("supplied")
    /\ requests = <<>>
    /\ now = 0
    /\ weatherFrom = 0
    /\ lastClick = [any |-> FALSE, coord |-> coords, id |-> 0]
    /\ lastEvent = NoEvent
    /\ probe = IdleProbe
    /\ view = [code |-> 0, label |-> "", rendered |-> FALSE]

Request(coord, origin) == [coord |-> coord, origin |-> origin, settled |-> FALSE]

InFlight == {i \in DOMAIN requests : ~requests[i].settled}

-----------------------------------------------------------------------------
(* The effect "Initial fetch for default coordinates", up to its await. *)

Mount ==
    /\ ~mounted
    /\ mounted' = TRUE
    /\ loading' = TRUE
    /\ error' = ""
    /\ requests' = Append(requests, Request(coords, "mount"))
    /\ lastEvent' = Event("mount", coords, Len(requests) + 1, FALSE)
    /\ UNCHANGED <<modalOpen, weather, clickedCoords, now, weatherFrom,
                   lastClick, probe, view,
                   render>>

-----------------------------------------------------------------------------
(* onBuildingClick(coord), up to its await. *)

\* the test that skips the fetch
\* clickedCoords === coord: a fresh object literal is never the stored object
cacheHit_ByReference(coord) ==
    /\ weather # Null
    /\ Truthy(weather.time)
    /\ FALSE

cacheHit(coord) ==
    /\ weather # Null
    /\ Truthy(weather.time)
    /\ clickedCoords.lat = coord.lat
    /\ clickedCoords.lng = coord.lng

onBuildingClick(coord) ==
    /\ mounted
    /\ clickedCoords' = coord
    /\ modalOpen' = TRUE
    /\ IF cacheHit(coord)
       THEN /\ lastEvent' = Event("click", coord, 0, TRUE)
            /\ lastClick' = [any |-> TRUE, coord |-> coord, id |-> 0]
            /\ UNCHANGED <<loading, error, requests>>
       ELSE /\ Len(requests) < MaxFetches
            /\ loading' = TRUE
            /\ error' = ""
            /\ requests' = Append(requests, Request(coord, "click"))
            /\ lastEvent' = Event("click", coord, Len(requests) + 1, FALSE)
            /\ lastClick' = [any |-> TRUE, coord |-> coord, id |-> Len(requests) + 1]
    /\ UNCHANGED <<mounted, weather, now, weatherFrom, probe, view,
                   render>>

-----------------------------------------------------------------------------
(* Closing the panel: the keydown listener, the backdrop, the Close button. *)

Keys == {"Escape", "Enter"}

onKey(key) ==
    /\ mounted
    /\ modalOpen' = IF key = "Escape" THEN FALSE ELSE modalOpen
    /\ lastEvent' = Event(IF key = "Escape" THEN "escape" ELSE "key", coords, 0, FALSE)
    /\ UNCHANGED <<mounted, loading, error, weather, clickedCoords, requests,
                   now, weatherFrom, lastClick, probe, view,
                   render>>

\* a close that also drops the stored record
backdropClick_ResetsWeather ==
    /\ modalOpen
    /\ modalOpen' = FALSE
    /\ weather' = Null
    /\ weatherFrom' = 0
    /\ lastEvent' = Event("backdrop", coords, 0, FALSE)
    /\ UNCHANGED <<mounted, loading, error, clickedCoords, requests, now,
                   lastClick, probe, view,
                   render>>

backdropClick ==
    /\ modalOpen
    /\ modalOpen' = FALSE
    /\ lastEvent' = Event("backdrop", coords, 0, FALSE)
    /\ UNCHANGED <<mounted, loading, error, weather, clickedCoords, requests,
                   now, weatherFrom, lastClick, probe, view,
                   render>>

closeButtonClick ==
    /\ modalOpen
    /\ modalOpen' = FALSE
    /\ lastEvent' = Event("closeBtn", coords, 0, FALSE)
    /\ UNCHANGED <<mounted, loading, error, weather, clickedCoords, requests,
                   now, weatherFrom, lastClick, probe, view,
                   render>>

-----------------------------------------------------------------------------
(* A fetch settles: the rest of the handler that awaited it runs. *)

\* e.message || "Failed to fetch weather"
errorMessage(p) == OrElse(Str(p.message), Str("Failed to fetch weather")).s

\* fetchCurrentWeather after its await, for request i settled as p
\* (_OpensPanel: it also sets modalOpen)
fetchCurrentWeatherResume_OpensPanel(i, p) ==
    /\ IF p.state = "fulfilled"
       THEN /\ weather' = p.value
            /\ clickedCoords' = requests[i].coord
            /\ weatherFrom' = i
            /\ UNCHANGED error
       ELSE /\ error' = errorMessage(p)
            /\ UNCHANGED <<weather, clickedCoords, weatherFrom>>
    /\ loading' = FALSE
    /\ modalOpen' = TRUE

fetchCurrentWeatherResume(i, p) ==
    /\ IF p.state = "fulfilled"
       THEN /\ weather' = p.value
            /\ clickedCoords' = requests[i].coord
            /\ weatherFrom' = i
            /\ UNCHANGED error
       ELSE /\ error' = errorMessage(p)
            /\ UNCHANGED <<weather, clickedCoords, weatherFrom>>
    /\ loading' = FALSE
    /\ UNCHANGED modalOpen

\* onBuildingClick after its await, for request i settled as p
onBuildingClickResume(i, p) ==
    /\ IF p.state = "fulfilled"
       THEN /\ weather' = p.value
            /\ weatherFrom' = i
            /\ UNCHANGED error
       ELSE /\ error' = errorMessage(p)
            /\ UNCHANGED <<weather, weatherFrom>>
    /\ loading' = FALSE
    /\ UNCHANGED <<modalOpen, clickedCoords>>

Settle(i, o) ==
    /\ i \in InFlight
    /\ LET p == fetchWeather(requests[i].coord, o, now)
       IN  IF requests[i].origin = "mount"
           THEN fetchCurrentWeatherResume(i, p)
           ELSE onBuildingClickResume(i, p)
    /\ requests' = [requests EXCEPT ![i].settled = TRUE]
    /\ lastEvent' = Event("settle", coords, i, FALSE)
    /\ UNCHANGED <<mounted, now, lastClick, probe, view,
                   render>>

\* time passes
Tick ==
    /\ now < MaxNow
    /\ now' = now + 1
    /\ UNCHANGED <<panelVars, probe, view>>

Next ==
    \/ Mount
    \/ \E coord \in Coordinates : onBuildingClick(coord)
    \/ \E key \in Keys : onKey(key)
    \/ backdropClick
    \/ closeButtonClick
    \/ \E i \in DOMAIN requests : \E o \in PanelOutcomes : Settle(i, o)
    \/ Tick

Spec == Init /\ [][Next]_vars

-----------------------------------------------------------------------------
(* fetchWeather on its own: one call, every outcome of the external call.  *)

ProbeCall(coord, o) ==
    /\ probe.phase = "idle"
    /\ probe' = [probe EXCEPT !.phase = "pending", !.coord = coord,
                              !.outcome = o, !.calledAt = now]
    /\ UNCHANGED <<panelVars, now, view>>

ProbeSettle ==
    /\ probe.phase = "pending"
    /\ probe' = [probe EXCEPT !.phase = "settled", !.settledAt = now,
                              !.result = fetchWeather(probe.coord, probe.outcome, now)]
    /\ UNCHANGED <<panelVars, now, view>>

NextFetch ==
    \/ \E coord \in Coordinates : \E o \in Outcomes : ProbeCall(coord, o)
    \/ ProbeSettle
    \/ Tick

SpecFetch == Init /\ [][NextFetch]_vars

-----------------------------------------------------------------------------
(* The condition line on its own: one weather code at a time. *)

ShowCode(code) ==
    /\ view' = [code |-> code, label |-> "", rendered |-> FALSE]
    /\ UNCHANGED <<panelVars, now, probe>>

RenderCondition ==
    /\ ~view.rendered
    /\ view' = [view EXCEPT !.label = labelFor(view.code), !.rendered = TRUE]
    /\ UNCHANGED <<panelVars, now, probe>>

NextLabel ==
    \/ \E code \in Codes : ShowCode(code)
    \/ RenderCondition

SpecLabel == Init /\ [][NextLabel]_vars

-----------------------------------------------------------------------------
(* The mount with its re-renders, and no clicks: the component is rendered *)
(* with the coords prop (as App does) or without it. A render evaluates    *)
(* the parameter list: a passed prop is the parent's one object, since App *)
(* renders once; the default value is a new object literal on each render. *)
(* After a render the effect with dependencies [coords] runs when coords   *)
(* is not the object it last ran with.                                     *)

InitMount ==
    \E mode \in {"supplied", "default"} :
        /\ mounted = FALSE
        /\ modalOpen = FALSE
        /\ loading = FALSE
        /\ error = ""
        /\ weather = Null
        /\ clickedCoords = coordsFor(mode)
        /\ render = FirstRender(mode)
        /\ requests = <<>>
        /\ now = 0
        /\ weatherFrom = 0
        /\ lastClick = [any |-> FALSE, coord |-> coords, id |-> 0]
        /\ lastEvent = NoEvent
        /\ probe = IdleProbe
        /\ view = [code |-> 0, label |-> "", rendered |-> FALSE]

\* the effect is due: its dependency changed since it last ran
effectDue == render.depsId # render.coordsId

\* the effect runs fetchCurrentWeather up to its await; setLoading(true) and
\* setError("") ask for a re-render when they change the state
runEffect ==
    /\ effectDue
    /\ Len(requests) < MaxFetches
    /\ mounted' = TRUE
    /\ loading' = TRUE
    /\ error' = ""
    /\ requests' = Append(requests, Request(coordsFor(render.mode), "mount"))
    /\ render' = [render EXCEPT !.depsId = render.coordsId,
                                !.dirty = render.dirty \/ ~loading \/ error # ""]
    /\ lastEvent' = Event("mount", coords, Len(requests) + 1, FALSE)
    /\ UNCHANGED <<modalOpen, weather, clickedCoords, now, weatherFrom,
                   lastClick, probe, view>>

\* the component function runs again after a state update; pending effects
\* are flushed before a render starts
rerender ==
    /\ render.dirty
    /\ ~effectDue
    /\ render' = [render EXCEPT
                     !.dirty = FALSE,
                     !.coordsId = IF render.mode = "default" THEN @ + 1 ELSE @]
    /\ UNCHANGED <<mounted, modalOpen, loading, error, weather, clickedCoords,
                   requests, now, weatherFrom, lastClick, lastEvent, probe, view>>

\* a pre-fetch settles: fetchCurrentWeather resumes, and setWeather stores a
\* new object, which asks for a re-render
settleMount(i, o) ==
    /\ i \in InFlight
    /\ fetchCurrentWeatherResume(i, fetchWeather(requests[i].coord, o, now))
    /\ requests' = [requests EXCEPT ![i].settled = TRUE]
    /\ render' = [render EXCEPT !.dirty = TRUE]
    /\ lastEvent' = Event("settle", coords, i, FALSE)
    /\ UNCHANGED <<mounted, now, lastClick, probe, view>>

NextMount ==
    \/ runEffect
    \/ rerender
    \/ \E i \in DOMAIN requests : \E o \in PanelOutcomes : settleMount(i, o)
    \/ Tick

SpecMount == InitMount /\ [][NextMount]_vars

-----------------------------------------------------------------------------
(* What the panel shows, and the steps the claims speak of. *)

\* the weather grid is rendered: modalOpen && !loading && !error && weather
ShowsRecord == modalOpen /\ ~loading /\ error = "" /\ weather # Null

\* this step is a run of onBuildingClick on a coordinate equal to coord
ClickStep(coord) ==
    /\ lastEvent' # lastEvent
    /\ lastEvent'.kind = "click"
    /\ lastEvent'.coord.lat = coord.lat
    /\ lastEvent'.coord.lng = coord.lng

\* this step settles request i
SettleStep(i) == i \in InFlight /\ requests'[i].settled

\* this step is one of the three ways to close the panel
CloseStep == lastEvent' # lastEvent /\ lastEvent'.kind \in CloseKinds

\* this step issues no fetch and leaves the stored record alone
NoFetchSameRecord ==
    /\ requests' = requests
    /\ weather' = weather
    /\ weatherFrom' = weatherFrom

-----------------------------------------------------------------------------
\* C1: last-request-wins. When click(A) and then click(B), A # B, have each
\* issued a fetch, B's has settled and been applied (selected coordinate B,
\* stored record B's) and A's is the only one still in flight, then after A's
\* settles the selected coordinate is still B and the stored record is still
\* the one returned for B.
C1_LastRequestWins ==
    [][\A a, b \in DOMAIN requests :
          ( /\ a < b
            /\ b = Len(requests)
            /\ requests[a].origin = "click"
            /\ requests[b].origin = "click"
            /\ requests[a].coord # requests[b].coord
            /\ InFlight = {a}
            /\ clickedCoords = requests[b].coord
            /\ weatherFrom = b
            /\ SettleStep(a) )
          => (clickedCoords' = requests[b].coord /\ weatherFrom' = b)]_vars

-----------------------------------------------------------------------------
\* C2: dedup rule. When the last click was on C, the fetch it issued has just
\* settled and its record is the stored one, a click on a coordinate with the
\* same lat and lng issues no fetch, leaves the stored record unchanged and
\* leaves the panel open showing it.
C2_DedupAfterLoad ==
    [][( /\ lastClick.any
         /\ lastClick.id # 0
         /\ lastEvent.kind = "settle"
         /\ lastEvent.id = lastClick.id
         /\ weatherFrom = lastClick.id
         /\ ClickStep(lastClick.coord) )
       => (NoFetchSameRecord /\ ShowsRecord')]_vars

-----------------------------------------------------------------------------
-----------------------------------------------------------------------------
\* C7: the panel is closed before any handler runs, and a step takes it from
\* closed to open only if that step is a click: not the mount, not a fetch
\* settling (the pre-fetch or a click's fetch, before or after a close).
C7_OpenOnlyByClick ==
    /\ ~modalOpen
    /\ [][(~modalOpen /\ modalOpen') => lastEvent'.kind = "click"]_vars

\* the pre-fetch has settled last, after a click opened the panel and a close
\* closed it, and the panel is still closed
C7_Witness ==
    /\ ~modalOpen
    /\ lastClick.any
    /\ lastEvent.kind = "settle"
    /\ requests[lastEvent.id].origin = "mount"

-----------------------------------------------------------------------------
\* C8: warm pre-fetch. When the mount pre-fetch has settled and no click has
\* run yet, a click on the default coordinate opens the panel showing the
\* pre-fetched record and issues no fetch.
C8_WarmPrefetch ==
    [][( /\ ~lastClick.any
         /\ Len(requests) = 1
         /\ requests[1].settled
         /\ ClickStep(coords) )
       => (NoFetchSameRecord /\ ShowsRecord' /\ weatherFrom' = 1)]_vars

\* the first click, on the default coordinate, found the pre-fetched record
C8_Witness ==
    /\ lastEvent.kind = "click"
    /\ lastEvent.prev = "settle"
    /\ lastEvent.coord = coords
    /\ Len(requests) = 1
    /\ ShowsRecord
    /\ weatherFrom = 1

-----------------------------------------------------------------------------
\* C9: the error message is empty in every reachable state.
C9_NeverErrored == error = ""

\* a failed external call has settled and been stored as the fallback record
C9_Witness ==
    /\ lastEvent.kind = "settle"
    /\ weatherFrom = lastEvent.id
    /\ weather.temperature = Str("--")
    /\ modalOpen
    /\ error = ""

-----------------------------------------------------------------------------
\* C10: when the last fetch issued comes from a click, loading is true and an
\* earlier fetch for a different coordinate settles while the click's fetch is
\* still in flight, loading stays true.
C10_SupersededKeepsLoading ==
    [][\A i, j \in DOMAIN requests :
          ( /\ i < j
            /\ j = Len(requests)
            /\ requests[j].origin = "click"
            /\ requests[j].coord # requests[i].coord
            /\ j \in InFlight
            /\ loading
            /\ SettleStep(i) )
          => loading']_vars

-----------------------------------------------------------------------------
(* fetchWeather's result. *)

ProbeSettled == probe.phase = "settled"

RecordKeys ==
    {"temperature", "windspeed", "winddirection", "weathercode", "time", "units"}

\* the sentinels, code and units of the fallback record
HasFallbackValues(r) ==
    /\ r.temperature = Str("--")
    /\ r.windspeed = Str("--")
    /\ r.winddirection = Str("--")
    /\ r.weathercode = Num(0)
    /\ r.units.temperature = "°C"
    /\ r.units.windspeed = "km/h"

\* C4: whatever the external call does, fetchWeather's promise is fulfilled,
\* never rejected, with a record that has all six keys, none of temperature,
\* windspeed, winddirection, weathercode and time undefined or null, and both
\* units present.
C4_AlwaysFullRecord ==
    ProbeSettled =>
        /\ probe.result.state = "fulfilled"
        /\ DOMAIN probe.result.value = RecordKeys
        /\ \A f \in Fields : ~Nullish(probe.result.value[f])
        /\ DOMAIN probe.result.value.units = {"temperature", "windspeed"}
        /\ probe.result.value.units.temperature # ""
        /\ probe.result.value.units.windspeed # ""

\* a response whose current_weather has a null field and an absent one
C4_Witness ==
    /\ ProbeSettled
    /\ probe.outcome.cwKind = "object"
    /\ probe.outcome.cw["temperature"] = Null
    /\ probe.outcome.cw["time"] = Undefined
    /\ probe.outcome.cw["windspeed"] = Num(12)
    /\ probe.result.value.temperature = Str("--")
    /\ probe.result.value.windspeed = Num(12)

\* C5 as stated: on a transport failure, a non-success status or a response
\* without current_weather the result is the fallback record, timestamped
\* with the time of the call.
C5_FallbackAtCallTime ==
    (ProbeSettled /\ probe.outcome \in FailureOutcomes) =>
        /\ probe.result.state = "fulfilled"
        /\ HasFallbackValues(probe.result.value)
        /\ probe.result.value.time = toISOString(probe.calledAt)

\* C5 as amended: on those failures the result is the fallback record, with
\* the sentinels, code 0 and the two units, timestamped with the time at which
\* the failure is caught, which is when the call's outcome arrives and never
\* before the call.
C5_FallbackAtCatchTime ==
    (ProbeSettled /\ probe.outcome \in FailureOutcomes) =>
        /\ probe.result.state = "fulfilled"
        /\ DOMAIN probe.result.value = RecordKeys
        /\ HasFallbackValues(probe.result.value)
        /\ probe.result.value.time = toISOString(probe.settledAt)
        /\ probe.calledAt <= probe.settledAt

\* a non-success status came back after the clock had moved on
C5_Witness ==
    /\ ProbeSettled
    /\ probe.outcome = BadStatus
    /\ probe.calledAt < probe.settledAt
    /\ probe.result.value.time = toISOString(probe.settledAt)

-----------------------------------------------------------------------------
(* The condition line. *)

WmoCodes == {0, 1, 2, 3, 45, 48, 51, 53, 55, 61, 63, 65, 71, 73, 75, 95}

\* C6: for every integer code the condition line is a non-empty string; for
\* each of the 16 codes of the table it is the table's label, and for any
\* other code N it is "Code N".
C6_LabelTotal ==
    view.rendered =>
        /\ view.label # ""
        /\ Cardinality(WmoCodes) = 16
        /\ DOMAIN WMO = WmoCodes
        /\ view.code \in WmoCodes => view.label = WMO[view.code]
        /\ view.code = 0 => view.label = "Clear sky"
        /\ view.code = 61 => view.label = "Slight rain"
        /\ view.code = 95 => view.label = "Thunderstorm"
        /\ view.code \notin WmoCodes => view.label = "Code " \o ToString(view.code)

\* a negative code has been rendered
C6_Witness ==
    /\ view.rendered
    /\ view.code = -1
    /\ view.label = "Code -1"

-----------------------------------------------------------------------------
\* C11: record/coordinate consistency. Whenever the panel is open, loading is
\* false and a record is stored, that record was returned by a fetch issued
\* for the currently selected coordinate.
C11_RecordMatchesSelection ==
    (modalOpen /\ ~loading /\ weather # Null) =>
        /\ weatherFrom \in DOMAIN requests
        /\ requests[weatherFrom].coord.lat = clickedCoords.lat
        /\ requests[weatherFrom].coord.lng = clickedCoords.lng

-----------------------------------------------------------------------------
\* the component is at rest: no effect is due, no re-render is pending and no
\* fetch is in flight
Quiet == mounted /\ ~effectDue /\ ~render.dirty /\ InFlight = {}

\* C12: with no clicks, whether coords is passed or left to its default, the
\* mount issues exactly one fetch, for the default coordinate, and once the
\* component is at rest loading is false and a record is stored.
C12_OneFetchThenQuiet ==
    /\ Len(requests) <= 1
    /\ \A i \in DOMAIN requests : requests[i].coord = coordsFor(render.mode)
    /\ Quiet => (Len(requests) = 1 /\ ~loading /\ weather # Null)

\* C12, the half with coords passed (as App does): one fetch, then at rest
C12_OneFetchWhenPassed ==
    render.mode = "supplied" =>
        /\ Len(requests) <= 1
        /\ \A i \in DOMAIN requests : requests[i].coord = coords
        /\ Quiet => (Len(requests) = 1 /\ ~loading /\ weather # Null)

====
